---- MODULE Spec2Model ----
(***************************************************************************)
(* A model of random_tools: rename_to_ascii.py (transliteration, platform  *)
(* substitution, rename proposals, the tree scan) and                      *)
(* password_generator.py (generate_password).                              *)
(*                                                                         *)
(* A Python str is a sequence of characters.  A character is a TLA+ string *)
(* of length one ("a", ":", "/") or, for a character that is awkward to    *)
(* write, the name of its code point ("U+00E9").  Every call of the        *)
(* program is synchronous and self-contained, so a behaviour is the        *)
(* environment preparing the filesystem followed by one call; the state    *)
(* after the call holds the call's arguments and its outcome.              *)
(***************************************************************************)
EXTENDS Integers, Sequences, FiniteSets

VARIABLES
    op,     \* the function that was called, "none" before the call
    args,   \* the arguments of the call
    ret,    \* the outcome of the call: a returned value or a raised error
    fs      \* the filesystem: node (sequence of entry names) -> "dir" | "file"

vars == <<op, args, ret, fs>>

----------------------------------------------------------------------------
(* Bounds of the model.                                                    *)

MaxLen == 3         \* longest input string of the string functions
MaxSubLen == 2      \* longest input string when replacements are given
MaxNameLen == 2     \* longest name given to propose_changes
MaxEntries == 3     \* most entries created below the filesystem root
MaxDepth == 3       \* deepest entry below the filesystem root
MaxPwLen == 2       \* longest password asked for

----------------------------------------------------------------------------
(* Characters.                                                             *)

\* string.digits, string.ascii_letters, string.punctuation, string.whitespace
digits == <<"0", "1", "2", "3", "4", "5", "6", "7", "8", "9">>

ascii_lowercase ==
    <<"a", "b", "c", "d", "e", "f", "g", "h", "i", "j", "k", "l", "m",
      "n", "o", "p", "q", "r", "s", "t", "u", "v", "w", "x", "y", "z">>

ascii_uppercase ==
    <<"A", "B", "C", "D", "E", "F", "G", "H", "I", "J", "K", "L", "M",
      "N", "O", "P", "Q", "R", "S", "T", "U", "V", "W", "X", "Y", "Z">>

ascii_letters == ascii_lowercase \o ascii_uppercase

\* GRAVE ACCENT, the character `
GRAVE == "U+0060"

punctuation ==
    <<"!", "\"", "#", "$", "%", "&", "'", "(", ")", "*", "+", ",", "-", ".",
      "/", ":", ";", "<", "=", ">", "?", "@", "[", "\\", "]", "^", "_", GRAVE,
      "{", "|", "}", "~">>

whitespace == <<" ", "\t", "\n", "\r", "U+000B", "U+000C">>

\* string.printable
printable == digits \o ascii_letters \o punctuation \o whitespace

Range(f) == {f[i] : i \in DOMAIN f}

\* BEL: an ASCII character that is not printable
BEL == "U+0007"
\* LATIN SMALL LETTER E WITH ACUTE
E_ACUTE == "U+00E9"
\* COMBINING ACUTE ACCENT
COMBINING_ACUTE == "U+0301"
\* FULLWIDTH SOLIDUS
FULLWIDTH_SOLIDUS == "U+FF0F"
\* FULLWIDTH COLON
FULLWIDTH_COLON == "U+FF1A"

\* the characters below U+0080 (str.isascii is true of a string of them)
AsciiChars == Range(printable) \cup {BEL}

\* str.isascii
isascii(s) == \A i \in DOMAIN s : s[i] \in AsciiChars

\* "".join(c for c in s if c in string.printable)
RECURSIVE printable_only(_)
printable_only(s) ==
    IF s = <<>> THEN <<>>
    ELSE (IF Head(s) \in Range(printable) THEN <<Head(s)>> ELSE <<>>)
         \o printable_only(Tail(s))

\* the strings over the alphabet A of length at most n
StringsUpTo(A, n) == UNION {[1..k -> A] : k \in 0..n}

----------------------------------------------------------------------------
(* Transliterator: ascii_equivalent.                                       *)

\* unicodedata.normalize("NFKD", c) for one character: the compatibility
\* decomposition.  ASCII characters and combining marks are their own.
NFKD_char(c) ==
    CASE c = E_ACUTE -> <<"e", COMBINING_ACUTE>>
      [] c = FULLWIDTH_SOLIDUS -> <<"/">>
      [] c = FULLWIDTH_COLON -> <<":">>
      [] OTHER -> <<c>>

RECURSIVE NFKD(_)
NFKD(s) == IF s = <<>> THEN <<>> ELSE NFKD_char(Head(s)) \o NFKD(Tail(s))

\* unidecode(c) for one character: a character below U+0080 is kept as it
\* is, any other is replaced by the ASCII string of unidecode's table.
unidecode_char(c) ==
    CASE c \in AsciiChars -> <<c>>
      [] c = E_ACUTE -> <<"e">>
      [] c = COMBINING_ACUTE -> <<>>
      [] c = FULLWIDTH_SOLIDUS -> <<"/">>
      [] c = FULLWIDTH_COLON -> <<":">>
      [] OTHER -> <<>>

RECURSIVE unidecode(_)
unidecode(s) ==
    IF s = <<>> THEN <<>> ELSE unidecode_char(Head(s)) \o unidecode(Tail(s))

\* a faulty ascii_equivalent: the printable filter is forgotten
ascii_equivalent_nofilter(s) == unidecode(NFKD(s))

ascii_equivalent(s) == printable_only(unidecode(NFKD(s)))

----------------------------------------------------------------------------
(* Outcomes of a call.                                                     *)

NoArgs == [s |-> <<>>]
NoRet == [kind |-> "none"]

Return(v) == [kind |-> "return", val |-> v]
\* return None
ReturnNone == [kind |-> "none_value"]
\* raise ValueError(...): err names the message
Raise(e) == [kind |-> "raise", err |-> e]

Returned(r) == r.kind = "return"
Raised(r) == r.kind = "raise"

----------------------------------------------------------------------------
(* SubstitutionEngine: compatibility_substitution.                         *)

forbidden_characters ==
    [windows |-> <<":", "\"", "/", "\\", "<", ">", "|", "?", "*">>,
     macos |-> <<":", "/">>,
     unix |-> <<"/">>]

\* the values given for 'type'; str.lower() of each
lower(type) ==
    CASE type = "Windows" -> "windows"
      [] type = "MacOS" -> "macos"
      [] OTHER -> type

\* A keyword argument of compatibility_substitution is None or a str.
None == [none |-> TRUE, str |-> <<>>]
Str(x) == [none |-> FALSE, str |-> x]

\* Python's truth value of an argument: None and "" are false
truthy(arg) == ~arg.none /\ arg.str # <<>>

\* complete_codemap built from the default keyword arguments
default_codemap ==
    [c \in Range(forbidden_characters.windows) |->
        CASE c = ":" -> Str(<<";">>)
          [] c = "\"" -> Str(<<"'">>)
          [] c = "/" -> Str(<<"-">>)
          [] c = "\\" -> Str(<<"-">>)
          [] c = "<" -> Str(<<"(", "l", "t", ")">>)
          [] c = ">" -> Str(<<"(", "g", "t", ")">>)
          [] c = "|" -> Str(<<"-">>)
          [] c = "?" -> Str(<<"(", "q", ")">>)
          [] c = "*" -> Str(<<"^">>)]

\* s.replace(char, replacement) for a single character char
RECURSIVE str_replace(_, _, _)
str_replace(s, char, replacement) ==
    IF s = <<>> THEN <<>>
    ELSE (IF Head(s) = char THEN replacement ELSE <<Head(s)>>)
         \o str_replace(Tail(s), char, replacement)

\* arg in codemap.keys(): the whole argument is one of the keys
is_key(arg, keys) == \E i \in DOMAIN keys : arg.str = <<keys[i]>>

\* a faulty check: a replacement that is a forbidden character is let through
RECURSIVE check_replacements_noconflict(_, _, _, _)
check_replacements_noconflict(rest, keys, codemap, ascii_only) ==
    IF rest = <<>> THEN "ok"
    ELSE LET arg == codemap[Head(rest)] IN
         IF truthy(arg) /\ ascii_only /\ ~isascii(arg.str)
         THEN "NonAsciiReplacement"
         ELSE check_replacements_noconflict(Tail(rest), keys, codemap, ascii_only)

\* the loop that checks the replacements, over the keys still to check:
\* "ok", or the ValueError raised at the first key that fails
\*   ConflictingReplacement: "cannot replace with forbidden characters"
\*   NonAsciiReplacement:    "cannot replace with non-ASCII characters"
RECURSIVE check_replacements(_, _, _, _)
check_replacements(rest, keys, codemap, ascii_only) ==
    IF rest = <<>> THEN "ok"
    ELSE LET arg == codemap[Head(rest)] IN
         IF truthy(arg) /\ is_key(arg, keys)
         THEN "ConflictingReplacement"
         ELSE IF truthy(arg) /\ ascii_only /\ ~isascii(arg.str)
         THEN "NonAsciiReplacement"
         ELSE check_replacements(Tail(rest), keys, codemap, ascii_only)

\* a faulty loop: only the first forbidden character is replaced
replace_forbidden_first(s, keys, codemap) ==
    IF keys # <<>> /\ truthy(codemap[Head(keys)])
    THEN str_replace(s, Head(keys), codemap[Head(keys)].str)
    ELSE s

\* the loop that replaces, taking the forbidden characters in the order keys
RECURSIVE replace_forbidden(_, _, _)
replace_forbidden(s, keys, codemap) ==
    IF keys = <<>> THEN s
    ELSE replace_forbidden(
            IF truthy(codemap[Head(keys)])
            THEN str_replace(s, Head(keys), codemap[Head(keys)].str)
            ELSE s,
            Tail(keys), codemap)

\*   InvalidPlatform: "type: invalid type"
compatibility_substitution(s, type, ascii_only, complete_codemap) ==
    IF lower(type) \notin DOMAIN forbidden_characters
    THEN Raise("InvalidPlatform")
    ELSE LET relevant_keys == forbidden_characters[lower(type)]
             checked == check_replacements(relevant_keys, relevant_keys,
                                           complete_codemap, ascii_only)
         IN  IF checked # "ok" THEN Raise(checked)
             ELSE Return(printable_only(
                     replace_forbidden(s, relevant_keys, complete_codemap)))

----------------------------------------------------------------------------
(* ProposalBuilder: propose_changes.                                       *)

\* s.startswith("/") and s.endswith("/")
startswith_sep(s) == s # <<>> /\ Head(s) = "/"
endswith_sep(s) == s # <<>> /\ s[Len(s)] = "/"

\* os.path.join(a, b) of posixpath
os_path_join(a, b) ==
    IF startswith_sep(b) THEN b
    ELSE IF a = <<>> \/ endswith_sep(a) THEN a \o b
    ELSE a \o <<"/">> \o b

\* An optional 'substitute_type' is None or a value for 'type'.
NoType == [none |-> TRUE, str |-> ""]
Type(x) == [none |-> FALSE, str |-> x]

\* Python's truth value of substitute_type: None and "" are false
type_given(t) == ~t.none /\ t.str # ""

\* a faulty propose_changes: the new name is compared with the
\* transliterated name, not with the name itself
propose_changes_vs_ascii(s, root, substitute_type) ==
    LET ascii_s == ascii_equivalent(s)
        sub == IF type_given(substitute_type)
               THEN compatibility_substitution(ascii_s, substitute_type.str,
                                               TRUE, default_codemap)
               ELSE Return(ascii_s)
    IN  IF Raised(sub) THEN sub
        ELSE IF sub.val = ascii_s THEN ReturnNone
        ELSE IF truthy(root)
        THEN Return(<<os_path_join(root.str, s),
                      os_path_join(root.str, sub.val)>>)
        ELSE Return(<<s, sub.val>>)

\* the error of compatibility_substitution propagates
propose_changes(s, root, substitute_type) ==
    LET ascii_s == ascii_equivalent(s)
        sub == IF type_given(substitute_type)
               THEN compatibility_substitution(ascii_s, substitute_type.str,
                                               TRUE, default_codemap)
               ELSE Return(ascii_s)
    IN  IF Raised(sub) THEN sub
        ELSE IF sub.val = s THEN ReturnNone
        ELSE IF truthy(root)
        THEN Return(<<os_path_join(root.str, s),
                      os_path_join(root.str, sub.val)>>)
        ELSE Return(<<s, sub.val>>)

\* [item for item in x if item]: None is false, a pair of paths is true
IsProposal(item) == item.kind = "return"
RECURSIVE values(_)
values(x) == IF x = <<>> THEN <<>> ELSE <<Head(x).val>> \o values(Tail(x))
filter_nonetypes(x) == values(SelectSeq(x, IsProposal))

----------------------------------------------------------------------------
(* The filesystem, as posixpath and os.walk read it.  A node is the        *)
(* sequence of entry names that leads to it from the root directory, which *)
(* is also the working directory.  Entries are directories and regular     *)
(* files; there are no symbolic links.                                     *)

\* the names entries are given: one that is plain ASCII, one that is not,
\* and one that ends with a backslash
EntryNames == {<<"a">>, <<E_ACUTE>>, <<"a", "\\">>}

\* s.rstrip("/\\")
RECURSIVE rstrip_seps(_)
rstrip_seps(s) ==
    IF s # <<>> /\ s[Len(s)] \in {"/", "\\"}
    THEN rstrip_seps(SubSeq(s, 1, Len(s) - 1))
    ELSE s

\* s.rstrip("/")
RECURSIVE rstrip_slash(_)
rstrip_slash(s) ==
    IF endswith_sep(s) THEN rstrip_slash(SubSeq(s, 1, Len(s) - 1)) ELSE s

\* s.rfind("/") + 1
RECURSIVE after_last_sep(_)
after_last_sep(s) ==
    IF s = <<>> \/ endswith_sep(s) THEN Len(s)
    ELSE after_last_sep(SubSeq(s, 1, Len(s) - 1))

\* os.path.split(p) of posixpath: <<head, tail>>
os_path_split(p) ==
    LET i == after_last_sep(p)
        head == SubSeq(p, 1, i)
        tail == SubSeq(p, i + 1, Len(p))
    IN  IF head # <<>> /\ rstrip_slash(head) # <<>>
        THEN <<rstrip_slash(head), tail>>
        ELSE <<head, tail>>

\* the names between the slashes of a path, empty ones dropped
RECURSIVE components(_)
components(p) ==
    IF p = <<>> THEN <<>>
    ELSE LET head == os_path_split(p)[1]
             tail == os_path_split(p)[2]
         IN  IF Len(head) = Len(p) THEN <<>>
             ELSE components(head) \o (IF tail = <<>> THEN <<>> ELSE <<tail>>)

\* os.path.exists(p): the empty path names nothing, and a path that ends with
\* a slash names a directory or nothing
os_path_exists(f, p) ==
    /\ p # <<>>
    /\ components(p) \in DOMAIN f
    /\ endswith_sep(p) => f[components(p)] = "dir"

\* os.path.isfile(p)
os_path_isfile(f, p) == os_path_exists(f, p) /\ f[components(p)] = "file"

\* the names of the entries of kind k in the directory node, in the order the
\* directory lists them
listing(f, node, k, order) ==
    LET Here(name) == node \o <<name>> \in DOMAIN f /\ f[node \o <<name>>] = k
    IN  SelectSeq(order, Here)

\* os.walk(top), top-down: the triples <<root, dirs, files>>, a directory
\* before the directories below it
RECURSIVE os_walk(_, _, _, _)
RECURSIVE walk_into(_, _, _, _, _)
os_walk(f, top, node, order) ==
    LET dirs == listing(f, node, "dir", order)
        files == listing(f, node, "file", order)
    IN  <<(<<top, dirs, files>>)>> \o walk_into(f, top, node, dirs, order)

walk_into(f, top, node, dirs, order) ==
    IF dirs = <<>> THEN <<>>
    ELSE os_walk(f, os_path_join(top, Head(dirs)), node \o <<Head(dirs)>>,
                 order)
         \o walk_into(f, top, node, Tail(dirs), order)

----------------------------------------------------------------------------
(* TreeScanner: find_problem_filenames.                                    *)

\* propose_changes for each name of names, with the same root
RECURSIVE propose_each(_, _, _)
propose_each(names, root, substitute_type) ==
    IF names = <<>> THEN <<>>
    ELSE <<propose_changes(Head(names), Str(root), substitute_type)>>
         \o propose_each(Tail(names), root, substitute_type)

\* the outcomes appended to problem_files (which = 3) or problem_dirs
\* (which = 2) over the triples of the walk
RECURSIVE appended(_, _, _)
appended(walk, which, substitute_type) ==
    IF walk = <<>> THEN <<>>
    ELSE propose_each(Head(walk)[which], Head(walk)[1], substitute_type)
         \o appended(Tail(walk), which, substitute_type)

\* a faulty loop: 'recursive' is not looked at
visited_all(walk, recursive) == walk

\* the triples the loop takes: it breaks after the first when not recursive
visited(walk, recursive) == IF recursive THEN walk ELSE SubSeq(walk, 1, 1)

\* the first outcome of xs that is a raised error, or NoRet; the calls of one
\* scan are given the same substitute_type, so they raise the same error
RECURSIVE first_raised(_)
first_raised(xs) ==
    IF xs = <<>> THEN NoRet
    ELSE IF Raised(Head(xs)) THEN Head(xs) ELSE first_raised(Tail(xs))

\*   PathNotFound: "'path' not found"
find_problem_filenames(f, given, substitute_type, include_dirs, recursive, order) ==
    LET path == rstrip_seps(given)
        root == os_path_split(path)[1]
        basename == os_path_split(path)[2]
        own == propose_changes(basename, Str(root), substitute_type)
        walk == visited(os_walk(f, path, components(path), order), recursive)
        problem_files == appended(walk, 3, substitute_type)
        problem_dirs ==
            IF include_dirs
            THEN <<own>> \o appended(walk, 2, substitute_type)
            ELSE <<>>
        \* every call of propose_changes the code makes
        calls ==
            (IF include_dirs THEN <<own>> ELSE <<>>)
            \o problem_files \o problem_dirs
    IN  IF ~os_path_exists(f, path) THEN Raise("PathNotFound")
        ELSE IF os_path_isfile(f, path)
        THEN IF Raised(own) THEN own
             ELSE Return(<<filter_nonetypes(<<own>>), <<>>>>)
        ELSE IF Raised(first_raised(calls)) THEN first_raised(calls)
        ELSE Return(<<filter_nonetypes(problem_files),
                      filter_nonetypes(problem_dirs)>>)

----------------------------------------------------------------------------
(* Password generator: generate_password.                                  *)

full_character_set == digits \o ascii_letters \o punctuation
alphanumeric_character_set == digits \o ascii_letters

\* the loop over excluded_characters: characters.replace(char, "") builds a
\* new string that is not assigned, so characters is what it was
remove_excluded(characters, excluded_characters) == characters

\* the character set the password is drawn from
character_set(alphanumeric_characters_only, excluded_characters) ==
    remove_excluded(
        IF alphanumeric_characters_only
        THEN alphanumeric_character_set
        ELSE full_character_set,
        excluded_characters)

\* the passwords generate_password can return: range(int(pw_length)) draws
\* of random.choice(characters); a negative length gives the empty password
generate_password(pw_length, alphanumeric_characters_only, excluded_characters) ==
    [1..(IF pw_length < 0 THEN 0 ELSE pw_length) ->
        Range(character_set(alphanumeric_characters_only,
                            excluded_characters))]

----------------------------------------------------------------------------
(* The calls of the string functions.                                      *)

\* the input alphabet of the string functions
InputChars == {"a", ":", "/", "<", BEL, E_ACUTE, FULLWIDTH_SOLIDUS}

\* the values given for 'type': the platforms, as documented and in another
\* case, and a value that is no platform
Types == {"windows", "macos", "unix", "MacOS", "solaris"}

\* the keyword arguments that are given, and the values given for them
OverrideKeys == {":", "/", "<"}
ReplacementChoices ==
    {None, Str(<<>>), Str(<<":">>), Str(<<"/">>), Str(<<E_ACUTE>>),
     Str(<<"/", "/">>)}

\* the defaults, with at most two keyword arguments given
Codemaps ==
    {[[default_codemap EXCEPT ![k1] = v1] EXCEPT ![k2] = v2] :
        <<k1, v1, k2, v2>> \in
            {<<k, default_codemap[k], k, default_codemap[k]>> :
                k \in OverrideKeys}
            \cup (OverrideKeys \X ReplacementChoices
                  \X OverrideKeys \X ReplacementChoices)}

Call_ascii_equivalent ==
    /\ op = "none"
    /\ \E s \in StringsUpTo(InputChars \cup {COMBINING_ACUTE}, MaxLen) :
        /\ op' = "ascii_equivalent"
        /\ args' = [s |-> s]
        /\ ret' = Return(ascii_equivalent(s))
    /\ UNCHANGED fs

\* a call with the default replacements, over every forbidden character
Call_compatibility_substitution_defaults ==
    /\ op = "none"
    /\ \E s \in StringsUpTo(Range(forbidden_characters.windows)
                            \cup {"a", BEL, E_ACUTE}, MaxLen),
          type \in Types, ascii_only \in BOOLEAN :
        /\ op' = "compatibility_substitution"
        /\ args' = [s |-> s, type |-> type, ascii_only |-> ascii_only,
                    codemap |-> default_codemap]
        /\ ret' = compatibility_substitution(s, type, ascii_only,
                                             default_codemap)
    /\ UNCHANGED fs

\* a call with keyword arguments given
Call_compatibility_substitution ==
    /\ op = "none"
    /\ \E s \in StringsUpTo({"a", ":", "/", "<"}, MaxSubLen),
          type \in Types, ascii_only \in BOOLEAN, codemap \in Codemaps :
        /\ op' = "compatibility_substitution"
        /\ args' = [s |-> s, type |-> type, ascii_only |-> ascii_only,
                    codemap |-> codemap]
        /\ ret' = compatibility_substitution(s, type, ascii_only, codemap)
    /\ UNCHANGED fs

\* the names and parents given to propose_changes
NameChars == {"a", "/", ":", BEL, E_ACUTE, FULLWIDTH_SOLIDUS}
Roots == {None, Str(<<>>), Str(<<"/">>), Str(<<"r">>), Str(<<"r", "/">>),
          Str(<<"/", "r">>), Str(<<"r", "/", "a">>)}

Call_propose_changes ==
    /\ op = "none"
    /\ \E s \in StringsUpTo(NameChars, MaxNameLen), root \in Roots,
          substitute_type \in {NoType, Type("")} \cup {Type(x) : x \in Types} :
        /\ op' = "propose_changes"
        /\ args' = [s |-> s, root |-> root,
                    substitute_type |-> substitute_type]
        /\ ret' = propose_changes(s, root, substitute_type)
    /\ UNCHANGED fs

\* the directories of the filesystem
Dirs(f) == {n \in DOMAIN f : f[n] = "dir"}

\* the environment creates an entry of kind k below an existing directory
Create(k) ==
    /\ op = "none"
    /\ Cardinality(DOMAIN fs) <= MaxEntries
    /\ \E parent \in Dirs(fs), name \in EntryNames :
        /\ Len(parent) < MaxDepth
        /\ parent \o <<name>> \notin DOMAIN fs
        /\ fs' = [n \in DOMAIN fs \cup {parent \o <<name>>} |->
                    IF n \in DOMAIN fs THEN fs[n] ELSE k]
    /\ UNCHANGED <<op, args, ret>>

MkDir == Create("dir")
MkFile == Create("file")

\* the path of a node from the root directory, and from the working directory
RECURSIVE relative_path(_)
relative_path(node) ==
    IF node = <<>> THEN <<>>
    ELSE IF Len(node) = 1 THEN node[1]
    ELSE node[1] \o <<"/">> \o relative_path(Tail(node))
absolute_path(node) == <<"/">> \o relative_path(node)

\* the paths given to find_problem_filenames: of the entries that exist and
\* of the entries the root directory could hold and does not, written from
\* the root or from the working directory, with and without a trailing slash
ScanPaths(f) ==
    LET nodes == DOMAIN f \cup {<<name>> : name \in EntryNames}
        written == {absolute_path(n) : n \in nodes}
                   \cup {relative_path(n) : n \in nodes}
    IN  written \cup {p \o <<"/">> : p \in written}

\* the orders in which a directory can list its entries
ListingOrders ==
    {order \in [1..Cardinality(EntryNames) -> EntryNames] :
        Range(order) = EntryNames}

Call_find_problem_filenames ==
    /\ op = "none"
    /\ \E path \in ScanPaths(fs),
          substitute_type \in {NoType, Type("windows"), Type("solaris")},
          include_dirs \in BOOLEAN, recursive \in BOOLEAN,
          order \in ListingOrders :
        /\ op' = "find_problem_filenames"
        /\ args' = [path |-> path, substitute_type |-> substitute_type,
                    include_dirs |-> include_dirs, recursive |-> recursive]
        /\ ret' = find_problem_filenames(fs, path, substitute_type,
                                         include_dirs, recursive, order)
    /\ UNCHANGED fs

\* the lists given for excluded_characters
ExcludedLists == {<<>>, <<"a">>, <<"a", "!">>, <<"ab">>}

Call_generate_password ==
    /\ op = "none"
    /\ \E pw_length \in -1..MaxPwLen,
          alphanumeric_characters_only \in BOOLEAN,
          excluded_characters \in ExcludedLists :
        \E password \in generate_password(pw_length,
                                          alphanumeric_characters_only,
                                          excluded_characters) :
            /\ op' = "generate_password"
            /\ args' = [pw_length |-> pw_length,
                        alphanumeric_characters_only |->
                            alphanumeric_characters_only,
                        excluded_characters |-> excluded_characters]
            /\ ret' = Return(password)
    /\ UNCHANGED fs

Init ==
    /\ op = "none"
    /\ args = NoArgs
    /\ ret = NoRet
    /\ fs = [n \in {<<>>} |-> "dir"]

NextAscii == Call_ascii_equivalent

SpecAscii == Init /\ [][NextAscii]_vars

NextSub ==
    \/ Call_compatibility_substitution_defaults
    \/ Call_compatibility_substitution

SpecSub == Init /\ [][NextSub]_vars

NextPropose == Call_propose_changes

SpecPropose == Init /\ [][NextPropose]_vars

NextScan == MkDir \/ MkFile \/ Call_find_problem_filenames

SpecScan == Init /\ [][NextScan]_vars

NextPassword == Call_generate_password

SpecPassword == Init /\ [][NextPassword]_vars

Next == NextAscii \/ NextSub \/ NextPropose \/ NextScan \/ NextPassword

Spec == Init /\ [][Next]_vars

----------------------------------------------------------------------------
(* Claims about compatibility_substitution.                                *)

IsPlatform(type) == lower(type) \in DOMAIN forbidden_characters

\* the number of occurrences of the character c in s
Count(c, s) == Cardinality({i \in DOMAIN s : s[i] = c})

\* C1: for every s and every recognized platform, a call with
\* ascii_only = true and the default replacements returns a string that
\* holds none of the platform's forbidden characters.
C1_NoForbiddenInResult ==
    (/\ op = "compatibility_substitution"
     /\ IsPlatform(args.type)
     /\ args.ascii_only
     /\ args.codemap = default_codemap)
    => /\ Returned(ret)
       /\ \A i \in DOMAIN ret.val :
            ret.val[i] \notin Range(forbidden_characters[lower(args.type)])

\* C1's case: a windows call on forbidden characters alone has returned.
C1_Witness ==
    /\ op = "compatibility_substitution"
    /\ args.type = "windows"
    /\ args.ascii_only
    /\ args.codemap = default_codemap
    /\ args.s = <<"\\", "?", "/">>
    /\ ret = Return(<<"-", "(", "q", ")", "-">>)

\* C2: of a call that returns, every forbidden character of the platform
\* whose replacement is the empty string is absent from the result, and the
\* occurrences of one whose replacement is None are all kept.
C2_EmptyDeletesNoneKeeps ==
    (/\ op = "compatibility_substitution"
     /\ Returned(ret))
    => \A c \in Range(forbidden_characters[lower(args.type)]) :
        /\ args.codemap[c] = Str(<<>>) => Count(c, ret.val) = 0
        /\ args.codemap[c] = None => Count(c, ret.val) >= Count(c, args.s)

\* the forbidden characters of the call's platform whose replacement is
\* non-empty and is itself a forbidden character of the platform
Conflicting(a) ==
    LET keys == forbidden_characters[lower(a.type)]
    IN  {i \in DOMAIN keys :
            truthy(a.codemap[keys[i]]) /\ is_key(a.codemap[keys[i]], keys)}

\* those whose replacement is non-empty and not ASCII
NonAscii(a) ==
    LET keys == forbidden_characters[lower(a.type)]
    IN  {i \in DOMAIN keys :
            truthy(a.codemap[keys[i]]) /\ ~isascii(a.codemap[keys[i]].str)}

\* C3, as stated: when a non-empty replacement of a forbidden character of
\* the platform is itself a forbidden character of the platform, the call
\* fails with ConflictingReplacement, whatever s is, and returns no string.
C3_AlwaysConflictingReplacement ==
    (/\ op = "compatibility_substitution"
     /\ IsPlatform(args.type)
     /\ Conflicting(args) # {})
    => ret = Raise("ConflictingReplacement")

\* C3, amended: in that case the call fails and returns no string; the error
\* is ConflictingReplacement, except that it is NonAsciiReplacement exactly
\* when ascii_only is set and a forbidden character listed before the first
\* conflicting one has a non-ASCII replacement.
C3_FailsBeforeReplacing ==
    (/\ op = "compatibility_substitution"
     /\ IsPlatform(args.type)
     /\ Conflicting(args) # {})
    => LET earlier ==
               /\ args.ascii_only
               /\ \E i \in NonAscii(args) : \A j \in Conflicting(args) : i < j
       IN  /\ Raised(ret)
           /\ earlier => ret.err = "NonAsciiReplacement"
           /\ ~earlier => ret.err = "ConflictingReplacement"

\* C3's case: a call whose replacement of ":" is "/" has failed on an input
\* that holds ":".
C3_Witness ==
    /\ op = "compatibility_substitution"
    /\ args.type = "macos"
    /\ args.s = <<"a", ":">>
    /\ args.codemap[":"] = Str(<<"/">>)
    /\ ret = Raise("ConflictingReplacement")

\* keys with the characters at positions i and j exchanged
Swap(keys, i, j) ==
    [k \in DOMAIN keys |->
        IF k = i THEN keys[j] ELSE IF k = j THEN keys[i] ELSE keys[k]]

\* C10: of a call that returns (the platform is recognized and the
\* replacements passed the check), the result is the one obtained by
\* replacing the forbidden characters in any other order; stated for the
\* orders that exchange two characters of the platform's list.
C10_OrderIndependent ==
    (/\ op = "compatibility_substitution"
     /\ Returned(ret))
    => LET keys == forbidden_characters[lower(args.type)]
       IN  \A i, j \in DOMAIN keys :
            printable_only(replace_forbidden(args.s, Swap(keys, i, j),
                                             args.codemap)) = ret.val

----------------------------------------------------------------------------
(* Claims about ascii_equivalent.                                         *)

\* C4: for every input s, ascii_equivalent(s) holds only printable ASCII
\* characters, and applying ascii_equivalent to it again gives it back.
C4_PrintableIdempotent ==
    op = "ascii_equivalent" =>
        /\ \A i \in DOMAIN ret.val :
            ret.val[i] \in Range(printable) /\ ret.val[i] \in AsciiChars
        /\ ascii_equivalent(ret.val) = ret.val

\* C4's case: an input with a non-ASCII character, a non-printable one and a
\* character that transliterates to a forbidden one has been transliterated.
C4_Witness ==
    /\ op = "ascii_equivalent"
    /\ args.s = <<E_ACUTE, BEL, FULLWIDTH_SOLIDUS>>
    /\ ret.val = <<"e", "/">>

----------------------------------------------------------------------------
(* Claims about propose_changes.                                           *)

\* the name after transliteration and, when a platform is given, after the
\* platform's substitution
Transformed(s, substitute_type) ==
    IF type_given(substitute_type)
    THEN replace_forbidden(ascii_equivalent(s),
                           forbidden_characters[lower(substitute_type.str)],
                           default_codemap)
    ELSE ascii_equivalent(s)

\* C5: for every name, optional parent and optional platform,
\* propose_changes returns None exactly when the transformed name is the
\* name, and otherwise returns a pair whose two components differ.
C5_NoneIffUnchanged ==
    (/\ op = "propose_changes"
     /\ type_given(args.substitute_type)
            => IsPlatform(args.substitute_type.str))
    => /\ ret = ReturnNone
            <=> Transformed(args.s, args.substitute_type) = args.s
       /\ ret # ReturnNone => Returned(ret) /\ ret.val[1] # ret.val[2]

\* C5's case: with a parent and a platform, a name that changes has got a
\* proposal.
C5_Witness ==
    /\ op = "propose_changes"
    /\ args = [s |-> <<E_ACUTE, ":">>, root |-> Str(<<"/", "r">>),
               substitute_type |-> Type("windows")]
    /\ ret = Return(<<(<<"/", "r", "/", E_ACUTE, ":">>),
                      (<<"/", "r", "/", "e", ";">>)>>)

\* C11: every proposal propose_changes makes for an entry name (a name
\* without a path separator) with a parent renames the entry within its
\* directory: the proposed path has the parent directory of the original
\* path, whatever the platform is, none included.
C11_SameParentDirectory ==
    (/\ op = "propose_changes"
     /\ truthy(args.root)
     /\ "/" \notin Range(args.s)
     /\ Returned(ret))
    => os_path_split(ret.val[2])[1] = os_path_split(ret.val[1])[1]

----------------------------------------------------------------------------
(* Claims about find_problem_filenames.                                    *)

\* C6: the scan fails with PathNotFound when the given path does not exist;
\* when it exists the scan does not fail with PathNotFound, and the path
\* without its trailing separators names the same entry.
C6_PathNotFoundIffMissing ==
    op = "find_problem_filenames" =>
        /\ ~os_path_exists(fs, args.path) => ret = Raise("PathNotFound")
        /\ os_path_exists(fs, args.path) =>
            /\ ret # Raise("PathNotFound")
            /\ components(rstrip_seps(args.path)) = components(args.path)

\* the regular files a scan of the directory top visits
FilesVisited(top, recursive) ==
    {n \in DOMAIN fs :
        /\ fs[n] = "file"
        /\ Len(n) > Len(top)
        /\ SubSeq(n, 1, Len(top)) = top
        /\ recursive \/ Len(n) = Len(top) + 1}

\* C7: when path (as the scan holds it, trailing separators stripped) is a
\* directory, the file list returned holds exactly one proposal for each
\* regular file whose transformed name differs from its name, among the
\* immediate children of path when recursive is false and among all its
\* descendants when recursive is true, and nothing else.
C7_FileProposalsExact ==
    (/\ op = "find_problem_filenames"
     /\ Returned(ret)
     /\ ~os_path_isfile(fs, rstrip_seps(args.path)))
    => LET top == components(rstrip_seps(args.path))
           files == ret.val[1]
           changed ==
               {n \in FilesVisited(top, args.recursive) :
                   Transformed(n[Len(n)], args.substitute_type) # n[Len(n)]}
       IN  /\ {components(files[i][1]) : i \in DOMAIN files} = changed
           /\ Len(files) = Cardinality(changed)

\* C7's case: a recursive scan of a directory whose only file to rename is
\* in a subdirectory has returned the proposal for that file.
C7_Witness ==
    /\ op = "find_problem_filenames"
    /\ args.path = <<"/", "a", "/">>
    /\ args.recursive
    /\ args.substitute_type = NoType
    /\ <<(<<"a">>), <<"a">>, <<E_ACUTE>>>> \in DOMAIN fs
    /\ fs[<<(<<"a">>), <<"a">>, <<E_ACUTE>>>>] = "file"
    /\ Returned(ret)
    /\ ret.val[1] = <<(<<(<<"/", "a", "/", "a", "/", E_ACUTE>>),
                         (<<"/", "a", "/", "a", "/", "e">>)>>)>>

\* C8: a scan of a path that exists, with a platform that is none of
\* windows, macos and unix, fails with InvalidPlatform, whatever the tree
\* holds and whatever include_dirs and recursive are.
C8_InvalidPlatformEager ==
    (/\ op = "find_problem_filenames"
     /\ os_path_exists(fs, rstrip_seps(args.path))
     /\ ~args.substitute_type.none
     /\ ~IsPlatform(args.substitute_type.str))
    => ret = Raise("InvalidPlatform")

----------------------------------------------------------------------------
(* Claims about generate_password.                                         *)

\* C9: no character listed in excluded_characters (as a single character)
\* occurs in the password returned.
C9_ExcludedNeverUsed ==
    op = "generate_password" =>
        \A i \in DOMAIN ret.val :
            \A j \in DOMAIN args.excluded_characters :
                args.excluded_characters[j] # ret.val[i]

====
